---- MODULE Spec2Model ----
(***************************************************************************)
(* A model of src/filecompiler/compile.py: the directory walk of           *)
(* analyze_code_files, the path filter should_skip_path, the per-file      *)
(* inspection (size gate, MIME gate, read/decode, metadata) and            *)
(* save_output.                                                            *)
(*                                                                         *)
(* Paths are sequences of components; a file name is a sequence of         *)
(* one-character strings so that Path.suffix and str.lower are computed.   *)
(* The filesystem is the environment: what scandir, getsize, magic, open,  *)
(* read and getmtime answer is drawn when the program first asks and then  *)
(* remembered in dirState, dirFiles and attr (the filesystem state the     *)
(* run observed).  content, statistics and last_modified are payload that  *)
(* is copied into the record and read by no step; they are not modelled.   *)
(***************************************************************************)
EXTENDS Integers, Sequences, FiniteSets, TLC

VARIABLES
    directory_path, \* the argument of analyze_code_files (args.directory)
    stack,          \* os.walk: directories still to be listed (full paths)
    root_dir,       \* os.walk: the directory last yielded
    files_here,     \* os.walk: the `files` list last yielded
    idx,            \* position of the inner for loop in files_here
    files,          \* analysis_data['files']
    errors,         \* analysis_data['errors']
    pc,             \* "walk", "loop", "returned", "saved", "failed"
    format,         \* the format argument of the save_output call, "" before
    raised,         \* the message of the exception save_output raised, <<>> if none
    outFile,        \* the destination file: "absent", "stale" or "report"
    dirState,       \* per directory: "unseen", "listed" or the OSError of scandir
    dirFiles,       \* per listed directory: the file names scandir returned
    attr            \* per inspected file: what the filesystem answered

vars == <<directory_path, stack, root_dir, files_here, idx, files, errors, pc,
          format, raised, outFile, dirState, dirFiles, attr>>

----------------------------------------------------------------------------
(* Bounds and the candidate filesystem *)

MaxFiles == 2

MaxPerDir == 2

MaxFileSize == 10 * 1024 * 1024

DEFAULT_EXCLUDE ==
    [dirs |-> {"dist", ".git", "venv", "node_modules", "__pycache__"},
     extensions |-> {<<".", "p", "y", "c">>, <<".", "j", "s", "o", "n">>}]

language_map ==
    [s \in {<<".", "p", "y">>, <<".", "j", "s">>, <<".", "j", "s", "x">>,
            <<".", "j", "a", "v", "a">>, <<".", "h", "t", "m", "l">>,
            <<".", "c", "s", "s">>, <<".", "x", "m", "l">>} |->
        CASE s = <<".", "p", "y">> -> "Python"
          [] s = <<".", "j", "s">> -> "JavaScript"
          [] s = <<".", "j", "s", "x">> -> "JavaScript/React"
          [] s = <<".", "j", "a", "v", "a">> -> "Java"
          [] s = <<".", "h", "t", "m", "l">> -> "HTML"
          [] s = <<".", "c", "s", "s">> -> "CSS"
          [] s = <<".", "x", "m", "l">> -> "XML"]

\* Where the scanned tree may be located: the directory argument as given.
RootPaths == {<<"proj">>, <<"dist", "proj">>}

\* The directories of the scanned tree, relative to the root, with the
\* subdirectories scandir reports for each, in directory-entry order.
Children(rel) ==
    CASE rel = <<>> -> <<"node_modules", "src">>
      [] rel = <<"node_modules">> -> <<"lib">>
      [] OTHER -> <<>>

AllDirs == {<<>>, <<"node_modules">>, <<"node_modules", "lib">>, <<"src">>}

FileNames == {<<"a", ".", "p", "y">>,
              <<"b", ".", "J", "S", "O", "N">>,
              <<".", "j", "s", "o", "n">>}

AllFiles == {d \o <<n>> : d \in AllDirs, n \in FileNames}

Sizes == {MaxFileSize, MaxFileSize + 1}

MimeTypes == {<<"text", "plain">>, <<"application", "json">>,
              <<"application", "octet-stream">>}

\* The call of the try block that raises, if it is reached.
Faults == {"none", "getsize", "magic", "open", "decode", "getsize2", "getmtime"}

ListErrors == {"ENOENT", "ENOTDIR", "EACCES"}

Formats == {"json", "xml", "yaml"}

NoAttr == [size |-> 0, mime |-> <<>>, fault |-> "unseen"]

----------------------------------------------------------------------------
(* Pure helpers *)

Last(s) == s[Len(s)]

Reverse(s) == [i \in 1..Len(s) |-> s[Len(s) + 1 - i]]

\* str.lower on the characters that occur.
LowerChar(c) ==
    CASE c = "J" -> "j" [] c = "S" -> "s" [] c = "O" -> "o" [] c = "N" -> "n"
      [] c = "P" -> "p" [] c = "Y" -> "y" [] c = "C" -> "c"
      [] OTHER -> c

Lower(s) == [i \in DOMAIN s |-> LowerChar(s[i])]

\* pathlib: name.rfind('.'), 1-based, 0 when there is no dot.
RFindDot(name) ==
    LET dots == {i \in DOMAIN name : name[i] = "."}
    IN IF dots = {} THEN 0 ELSE CHOOSE i \in dots : \A j \in dots : j <= i

\* pathlib PurePath.suffix: the last dot starts the suffix unless it is the
\* first or the last character of the name.
Suffix(name) ==
    LET i == RFindDot(name)
    IN IF 1 < i /\ i < Len(name) THEN SubSeq(name, i, Len(name)) ELSE <<>>

\* The names of Path(path).parents: every component but the last, and the
\* empty name of the anchor ("." or "/").
ParentNames(path) == {path[i] : i \in 1..(Len(path) - 1)} \cup {""}

\* A filter that looks at the immediate parent only.
should_skip_path_parent_only(path, exclude_patterns) ==
    \/ (Len(path) > 1 /\ path[Len(path) - 1] \in exclude_patterns.dirs)
    \/ Lower(Suffix(Last(path))) \in exclude_patterns.extensions

should_skip_path(path, exclude_patterns) ==
    \/ \E p \in ParentNames(path) : p \in exclude_patterns.dirs
    \/ Lower(Suffix(Last(path))) \in exclude_patterns.extensions

detect_language(path) ==
    LET extension == Lower(Suffix(Last(path)))
    IN IF extension \in DOMAIN language_map THEN language_map[extension]
       ELSE "Unknown"

IsTextLike(file_type) ==
    \/ file_type[1] = "text"
    \/ file_type = <<"application", "javascript">>
    \/ file_type = <<"application", "json">>
    \/ file_type = <<"application", "xml">>

\* A size gate that also rejects a file of exactly the limit.
TooLargeInclusive(file_size) == file_size >= MaxFileSize

TooLarge(file_size) == file_size > MaxFileSize

\* os.path.relpath(file_path, directory_path)
RelPath(path) == SubSeq(path, Len(directory_path) + 1, Len(path))

\* str(e) of the exception a failing call raises.
ErrMessage(fault) ==
    CASE fault = "decode" -> "UnicodeDecodeError"
      [] fault = "magic" -> "MagicException"
      [] fault = "open" -> "PermissionError"
      [] OTHER -> "FileNotFoundError"

\* What the filesystem may answer for one file.  A field the program never
\* gets to read (the size when getsize raises, the type when the size gate
\* or magic stops the inspection, a later fault when the file is skipped)
\* is fixed to one value.
Kinds ==
    {k \in [size : Sizes, mime : MimeTypes, fault : Faults] :
        /\ k.fault = "getsize" => k.size = MaxFileSize
        /\ (k.fault = "getsize" \/ TooLarge(k.size)) => k.mime = <<"text", "plain">>
        /\ TooLarge(k.size) => k.fault = "none"
        /\ k.fault = "magic" => k.mime = <<"text", "plain">>
        /\ (~IsTextLike(k.mime)) => k.fault = "none"}

\* An inspection that treats undecodable content like a non-text file.
OutcomeDropsDecodeError(k) ==
    IF k.fault = "getsize" THEN "error"
    ELSE IF TooLarge(k.size) THEN "skip_large"
    ELSE IF k.fault = "magic" THEN "error"
    ELSE IF ~IsTextLike(k.mime) THEN "skip_type"
    ELSE IF k.fault = "decode" THEN "skip_type"
    ELSE IF k.fault # "none" THEN "error"
    ELSE "file"

\* The outcome of lines 72-114 for a file the filesystem answers k for.
Outcome(k) ==
    IF k.fault = "getsize" THEN "error"
    ELSE IF TooLarge(k.size) THEN "skip_large"
    ELSE IF k.fault = "magic" THEN "error"
    ELSE IF ~IsTextLike(k.mime) THEN "skip_type"
    ELSE IF k.fault # "none" THEN "error"
    ELSE "file"

----------------------------------------------------------------------------
(* State *)

file_name == files_here[idx]

file_path == root_dir \o <<file_name>>

FilesSeen == Len(dirFiles[<<>>]) + Len(dirFiles[<<"node_modules">>])
             + Len(dirFiles[<<"node_modules", "lib">>]) + Len(dirFiles[<<"src">>])

\* The file lists scandir may return: distinct names, within the bounds.
FileLists(room) ==
    UNION {{fl \in [1..n -> FileNames] : \A i, j \in 1..n : i # j => fl[i] # fl[j]} :
              n \in {m \in 0..MaxPerDir : m <= room}}

Init ==
    /\ directory_path \in RootPaths
    /\ stack = <<directory_path>>
    /\ root_dir = <<>>
    /\ files_here = <<>>
    /\ idx = 1
    /\ files = <<>>
    /\ errors = <<>>
    /\ pc = "walk"
    /\ format = ""
    /\ raised = <<>>
    /\ outFile \in {"absent", "stale"}
    /\ dirState = [d \in AllDirs |-> "unseen"]
    /\ dirFiles = [d \in AllDirs |-> <<>>]
    /\ attr = [f \in AllFiles |-> NoAttr]

\* After one iteration of the inner for loop: the next file, or back into
\* the generator when the list is exhausted.
NextFile ==
    /\ idx' = idx + 1
    /\ pc' = IF idx + 1 > Len(files_here) THEN "walk" ELSE "loop"
    /\ UNCHANGED <<directory_path, stack, root_dir, files_here, format, raised,
                   outFile, dirState, dirFiles>>

\* os.walk: scandir(top) raises; onerror is None, so the directory is dropped.
WalkListFail ==
    /\ pc = "walk"
    /\ stack # <<>>
    /\ LET top == Last(stack)
       IN /\ \E e \in ListErrors :
                /\ (e # "EACCES") => top = directory_path
                /\ dirState' = [dirState EXCEPT ![RelPath(top)] = e]
          /\ stack' = SubSeq(stack, 1, Len(stack) - 1)
    /\ UNCHANGED <<directory_path, root_dir, files_here, idx, files, errors, pc,
                   format, raised, outFile, dirFiles, attr>>

\* os.walk: scandir(top) succeeds; (top, dirs, files) is yielded and the
\* subdirectories are pushed in reverse, so that they are popped in order.
WalkYield ==
    /\ pc = "walk"
    /\ stack # <<>>
    /\ LET top == Last(stack)
           rel == RelPath(top)
           dirs == Children(rel)
       IN /\ \E fl \in FileLists(MaxFiles - FilesSeen) :
                /\ dirFiles' = [dirFiles EXCEPT ![rel] = fl]
                /\ files_here' = fl
                /\ pc' = IF fl = <<>> THEN "walk" ELSE "loop"
          /\ dirState' = [dirState EXCEPT ![rel] = "listed"]
          /\ root_dir' = top
          /\ idx' = 1
          /\ stack' = SubSeq(stack, 1, Len(stack) - 1)
                      \o Reverse([i \in DOMAIN dirs |-> top \o <<dirs[i]>>])
    /\ UNCHANGED <<directory_path, files, errors, format, raised, outFile, attr>>

\* line 69: the path filter excludes the file.
SkipExcluded ==
    /\ pc = "loop"
    /\ should_skip_path(file_path, DEFAULT_EXCLUDE)
    /\ NextFile
    /\ UNCHANGED <<files, errors, attr>>

\* lines 73-76: the size gate.
SkipLarge ==
    /\ pc = "loop"
    /\ ~should_skip_path(file_path, DEFAULT_EXCLUDE)
    /\ \E k \in Kinds :
          /\ Outcome(k) = "skip_large"
          /\ attr' = [attr EXCEPT ![RelPath(file_path)] = k]
    /\ NextFile
    /\ UNCHANGED <<files, errors>>

\* lines 78-87: the MIME gate.
SkipNonText ==
    /\ pc = "loop"
    /\ ~should_skip_path(file_path, DEFAULT_EXCLUDE)
    /\ \E k \in Kinds :
          /\ Outcome(k) = "skip_type"
          /\ attr' = [attr EXCEPT ![RelPath(file_path)] = k]
    /\ NextFile
    /\ UNCHANGED <<files, errors>>

\* A record inserted at the front of the list instead of appended.
RecordFilePrepends ==
    /\ pc = "loop"
    /\ ~should_skip_path(file_path, DEFAULT_EXCLUDE)
    /\ \E k \in Kinds :
          /\ Outcome(k) = "file"
          /\ attr' = [attr EXCEPT ![RelPath(file_path)] = k]
          /\ files' = <<[path |-> RelPath(file_path),
                         name |-> file_name,
                         size |-> k.size,
                         language |-> detect_language(file_path)]>> \o files
    /\ NextFile
    /\ UNCHANGED errors

\* lines 89-106: read, decode, assemble the record, append it.
RecordFile ==
    /\ pc = "loop"
    /\ ~should_skip_path(file_path, DEFAULT_EXCLUDE)
    /\ \E k \in Kinds :
          /\ Outcome(k) = "file"
          /\ attr' = [attr EXCEPT ![RelPath(file_path)] = k]
          /\ files' = Append(files, [path |-> RelPath(file_path),
                                     name |-> file_name,
                                     size |-> k.size,
                                     language |-> detect_language(file_path)])
    /\ NextFile
    /\ UNCHANGED errors

\* A record appended before the metadata calls that may still raise.
RecordErrorAfterAppend ==
    /\ pc = "loop"
    /\ ~should_skip_path(file_path, DEFAULT_EXCLUDE)
    /\ \E k \in Kinds :
          /\ Outcome(k) = "error"
          /\ attr' = [attr EXCEPT ![RelPath(file_path)] = k]
          /\ errors' = Append(errors, [file |-> file_path,
                                       message |-> ErrMessage(k.fault)])
          /\ files' = IF k.fault \in {"getsize2", "getmtime"}
                      THEN Append(files, [path |-> RelPath(file_path),
                                          name |-> file_name,
                                          size |-> k.size,
                                          language |-> detect_language(file_path)])
                      ELSE files
    /\ NextFile

\* An exception that is not caught and ends the walk.
RecordErrorAborts ==
    /\ pc = "loop"
    /\ ~should_skip_path(file_path, DEFAULT_EXCLUDE)
    /\ \E k \in Kinds :
          /\ Outcome(k) = "error"
          /\ attr' = [attr EXCEPT ![RelPath(file_path)] = k]
    /\ pc' = "failed"
    /\ raised' = <<"uncaught">>
    /\ UNCHANGED <<directory_path, stack, root_dir, files_here, idx, files,
                   errors, format, outFile, dirState, dirFiles>>

\* lines 108-114: a call of the try block raised.
RecordError ==
    /\ pc = "loop"
    /\ ~should_skip_path(file_path, DEFAULT_EXCLUDE)
    /\ \E k \in Kinds :
          /\ Outcome(k) = "error"
          /\ attr' = [attr EXCEPT ![RelPath(file_path)] = k]
          /\ errors' = Append(errors, [file |-> file_path,
                                       message |-> ErrMessage(k.fault)])
    /\ NextFile
    /\ UNCHANGED files

\* line 116: the generator is exhausted.
Return ==
    /\ pc = "walk"
    /\ stack = <<>>
    /\ pc' = "returned"
    /\ UNCHANGED <<directory_path, stack, root_dir, files_here, idx, files,
                   errors, format, raised, outFile, dirState, dirFiles, attr>>

UnsupportedMessage(fmt) == <<"Unsupported output format: ", fmt>>

\* A writer that opens the destination before it looks at the format.
save_output_opens_first(fmt) ==
    /\ pc = "returned"
    /\ format' = fmt
    /\ outFile' = "report"
    /\ IF fmt = "json"
       THEN raised' = <<>> /\ pc' = "saved"
       ELSE raised' = UnsupportedMessage(fmt) /\ pc' = "failed"
    /\ UNCHANGED <<directory_path, stack, root_dir, files_here, idx, files,
                   errors, dirState, dirFiles, attr>>

save_output(fmt) ==
    /\ pc = "returned"
    /\ format' = fmt
    /\ IF fmt = "json"
       THEN /\ outFile' = "report"
            /\ raised' = <<>>
            /\ pc' = "saved"
       ELSE /\ outFile' = outFile
            /\ raised' = UnsupportedMessage(fmt)
            /\ pc' = "failed"
    /\ UNCHANGED <<directory_path, stack, root_dir, files_here, idx, files,
                   errors, dirState, dirFiles, attr>>

\* main, line 140: save_output(analysis_data, args.output), format defaulted.
MainSave == save_output("json")

\* save_output called directly with a format argument.
CallSave == \E fmt \in Formats \ {"json"} : save_output(fmt)

Next ==
    \/ WalkListFail
    \/ WalkYield
    \/ SkipExcluded
    \/ SkipLarge
    \/ SkipNonText
    \/ RecordFile
    \/ RecordError
    \/ Return
    \/ MainSave
    \/ CallSave

Spec == Init /\ [][Next]_vars

----------------------------------------------------------------------------
(* The properties *)

TenMiB == 10 * 1024 * 1024

IsPrefix(s, t) == Len(s) <= Len(t) /\ SubSeq(t, 1, Len(s)) = s

Range(s) == {s[i] : i \in DOMAIN s}

TextMime(m) ==
    \/ m[1] = "text"
    \/ m \in {<<"application", "javascript">>, <<"application", "json">>,
              <<"application", "xml">>}

Full(f) == directory_path \o f

\* The file each entry refers to, as a full path.
FileRefs == [i \in DOMAIN files |-> directory_path \o files[i].path]

ErrorRefs == [i \in DOMAIN errors |-> errors[i].file]

InFiles(p) == \E i \in DOMAIN files : FileRefs[i] = p

InErrors(p) == \E i \in DOMAIN errors : ErrorRefs[i] = p

CountRefs(p) ==
    Cardinality({i \in DOMAIN files : FileRefs[i] = p})
    + Cardinality({i \in DOMAIN errors : ErrorRefs[i] = p})

\* The files the walk enumerated, relative to the root.
TreeFiles ==
    UNION {{d \o <<dirFiles[d][i]>> : i \in DOMAIN dirFiles[d]} : d \in AllDirs}

Seen(f) == attr[f].fault # "unseen"

\* Every enumerated file the filter lets through has been inspected.
AllInspected ==
    \A f \in TreeFiles : ~should_skip_path(Full(f), DEFAULT_EXCLUDE) => Seen(f)

\* C1: in every state of the walk no file is referred to by two entries of
\* files, by two entries of errors, or by an entry of each.
C1_NoPathTwice ==
    /\ \A i, j \in DOMAIN files : i # j => FileRefs[i] # FileRefs[j]
    /\ \A i, j \in DOMAIN errors : i # j => ErrorRefs[i] # ErrorRefs[j]
    /\ \A i \in DOMAIN files : \A j \in DOMAIN errors : FileRefs[i] # ErrorRefs[j]

C1_Witness == pc = "returned" /\ Len(files) >= 1 /\ Len(errors) >= 1

\* The file passed the size gate and the MIME gate: getsize and magic
\* answered, the size is at most 10 MiB and the type is text-like.
PassedGates(f) ==
    /\ attr[f].fault \notin {"unseen", "getsize", "magic"}
    /\ attr[f].size <= TenMiB
    /\ TextMime(attr[f].mime)

HasError(f) ==
    \E i \in DOMAIN errors :
        errors[i].file = Full(f) /\ errors[i].message = ErrMessage(attr[f].fault)

\* C2 as stated: on return every enumerated, non-excluded file that passed
\* both gates has exactly one entry, in files if open, read and decode
\* succeeded and in errors otherwise.
C2_AsStated ==
    pc = "returned" =>
        \A f \in TreeFiles :
            (~should_skip_path(Full(f), DEFAULT_EXCLUDE) /\ PassedGates(f)) =>
                /\ CountRefs(Full(f)) = 1
                /\ IF attr[f].fault \notin {"open", "decode"}
                   THEN InFiles(Full(f))
                   ELSE HasError(f)

\* C2 as amended: on return every enumerated, non-excluded file is inspected,
\* and one that passed both gates has exactly one entry, in files if open,
\* read, decode and the getsize and getmtime calls that follow all succeeded,
\* and in errors, with the failure's message, otherwise.
C2_RecordedOrError ==
    pc = "returned" =>
        /\ AllInspected
        /\ \A f \in TreeFiles :
            (~should_skip_path(Full(f), DEFAULT_EXCLUDE) /\ PassedGates(f)) =>
                /\ CountRefs(Full(f)) = 1
                /\ IF attr[f].fault = "none"
                   THEN InFiles(Full(f))
                   ELSE HasError(f)

C2_Witness ==
    /\ pc = "returned"
    /\ \E f, g \in TreeFiles :
          /\ PassedGates(f) /\ attr[f].fault = "decode" /\ HasError(f)
          /\ PassedGates(g) /\ attr[g].fault = "none" /\ InFiles(Full(g))

\* The exclusion rule as the specification words it, on a path relative to
\* the root: a directory above the file with an excluded base name, or an
\* excluded lower-cased extension.
UnderExcludedDir(rel) ==
    \E i \in 1..(Len(rel) - 1) : rel[i] \in DEFAULT_EXCLUDE.dirs

HasExcludedExtension(rel) ==
    Lower(Suffix(Last(rel))) \in DEFAULT_EXCLUDE.extensions

\* C3: in every state no entry of files or errors refers to a file under an
\* excluded directory, at any depth below the root, or with an excluded
\* lower-cased extension.
C3_NoExcludedRecord ==
    /\ \A i \in DOMAIN files :
          /\ ~UnderExcludedDir(files[i].path)
          /\ ~HasExcludedExtension(files[i].path)
    /\ \A i \in DOMAIN errors :
          /\ ~UnderExcludedDir(RelPath(errors[i].file))
          /\ ~HasExcludedExtension(errors[i].file)

C3_Witness ==
    /\ pc = "returned"
    /\ directory_path = <<"proj">>
    /\ Len(dirFiles[<<"node_modules", "lib">>]) >= 1
    /\ \E d \in {<<>>, <<"src">>} :
          \E i \in DOMAIN dirFiles[d] : HasExcludedExtension(<<dirFiles[d][i]>>)

NoEntry(f) == ~InFiles(Full(f)) /\ ~InErrors(Full(f))

\* C4: a non-excluded file larger than 10 MiB, or of a type that is not
\* text-like, has no entry in files or errors; a text file of exactly
\* 10 MiB is recorded; and the walk goes on, so that on return every
\* enumerated file was looked at.
C4_SilentSkip ==
    /\ \A f \in AllFiles :
          /\ (attr[f].fault \notin {"unseen", "getsize"} /\ attr[f].size > TenMiB)
                => NoEntry(f)
          /\ (/\ attr[f].fault \notin {"unseen", "getsize", "magic"}
              /\ attr[f].size <= TenMiB
              /\ ~TextMime(attr[f].mime)) => NoEntry(f)
          /\ (/\ attr[f].fault = "none"
              /\ attr[f].size = TenMiB
              /\ TextMime(attr[f].mime)) => InFiles(Full(f))
    /\ pc = "returned" => AllInspected

C4_Witness ==
    /\ pc = "returned"
    /\ \E f, g \in TreeFiles :
          /\ Seen(f) /\ attr[f].size > TenMiB /\ NoEntry(f)
          /\ Seen(g) /\ attr[g].size = TenMiB /\ InFiles(Full(g))
    /\ Len(files) = 1
    /\ Len(errors) = 0

\* A step in which a call of the try block raises for file f.
C5_Step ==
    \A f \in AllFiles :
        (~Seen(f) /\ attr'[f].fault \notin {"none", "unseen"}) =>
            /\ errors' = Append(errors, [file |-> Full(f),
                                         message |-> ErrMessage(attr'[f].fault)])
            /\ files' = files
            /\ pc' \in {"loop", "walk"}
            /\ stack' = stack
            /\ files_here' = files_here
            /\ idx' = idx + 1

Walking == pc \in {"walk", "loop"}

\* The work the walk has left: the directories not yet listed, each worth
\* more than the files one listing can add, and the files of the current
\* directory still to be looked at.
WorkLeft ==
    (MaxPerDir + 1) * Cardinality({d \in AllDirs : dirState[d] = "unseen"})
    + (IF pc = "loop" THEN Len(files_here) + 1 - idx ELSE 0)

\* C5: a failing inspection adds exactly one entry to errors for that file,
\* leaves the earlier entries alone and goes on to the next file; every
\* later file is still filtered and inspected; and the walk returns: until
\* it has, a step is always possible and every step reduces the work left.
C5_FailureNeverAborts ==
    /\ [][C5_Step]_vars
    /\ [][Walking => \/ pc' = "returned"
                      \/ (Walking' /\ WorkLeft' >= 0 /\ WorkLeft' < WorkLeft)]_vars
    /\ [](Walking => ENABLED Next)
    /\ [](pc = "returned" => AllInspected)

C5_Witness ==
    /\ pc = "returned"
    /\ Len(errors) >= 1
    /\ Len(files) >= 1
    /\ Len(RelPath(errors[1].file)) = 1
    /\ Len(files[1].path) = 2

\* C6 as stated: on return every directory inside the tree that could not
\* be listed has an entry in errors keyed by its path.
C6_UnlistableDirRecorded ==
    pc = "returned" =>
        \A d \in AllDirs \ {<<>>} :
            dirState[d] \in ListErrors => InErrors(Full(d))

\* C7 as stated: when the root does not exist or is not a directory, main
\* never gets to write the report.
C7_BadRootIsFatal ==
    dirState[<<>>] \in {"ENOENT", "ENOTDIR"} => (pc # "saved" /\ outFile # "report")

\* C8: a call of save_output with a format other than json fails with a
\* message that names the format and leaves the destination file as it was.
C8_UnsupportedFormat ==
    [][(format = "" /\ format' \notin {"", "json"}) =>
            /\ pc' = "failed"
            /\ raised' = <<"Unsupported output format: ", format'>>
            /\ outFile' = outFile]_vars

C8_Witness == pc = "failed" /\ format = "xml" /\ outFile = "stale"

\* No excluded name among the directories from the root itself down to the
\* file's parent.
ExcludedFromRootDown(f) ==
    \/ Last(directory_path) \in DEFAULT_EXCLUDE.dirs
    \/ UnderExcludedDir(f)

\* C9 as stated: a file with no excluded directory name between the root
\* and itself and no excluded extension passes the filter, whatever the
\* directories above the root are called.
C9_FilterIgnoresAboveRoot ==
    \A f \in TreeFiles :
        (~ExcludedFromRootDown(f) /\ ~HasExcludedExtension(f)) =>
            ~should_skip_path(Full(f), DEFAULT_EXCLUDE)

DirOf(p) == SubSeq(p, 1, Len(p) - 1)

StrictlyUnder(d, top) == Len(d) > Len(top) /\ SubSeq(d, 1, Len(top)) = top

\* No entry so far refers to a file in a subdirectory of the directory of p.
NothingDeeper(p) ==
    \A e \in Range(FileRefs) \cup Range(ErrorRefs) :
        ~StrictlyUnder(DirOf(e), DirOf(p))

C10_Step ==
    /\ IsPrefix(files, files')
    /\ IsPrefix(errors, errors')
    /\ Len(files') > Len(files)
          => NothingDeeper(directory_path \o files'[Len(files')].path)
    /\ Len(errors') > Len(errors) => NothingDeeper(errors'[Len(errors')].file)

RECURSIVE WalkOrder(_), WalkBelow(_, _)

\* The enumerated files in the order of a top-down walk: a directory's own
\* files, then its subdirectories one after the other.
WalkOrder(rel) ==
    IF dirState[rel] # "listed" THEN <<>>
    ELSE [i \in DOMAIN dirFiles[rel] |-> rel \o <<dirFiles[rel][i]>>]
         \o WalkBelow(rel, 1)

WalkBelow(rel, n) ==
    IF n > Len(Children(rel)) THEN <<>>
    ELSE WalkOrder(rel \o <<Children(rel)[n]>>) \o WalkBelow(rel, n + 1)

IsRecorded(f) == attr[f].fault = "none" /\ attr[f].size <= TenMiB /\ TextMime(attr[f].mime)

IsFailed(f) == attr[f].fault \notin {"none", "unseen"}

\* C10: entries are only ever appended; an entry for a file directly in a
\* directory is appended before any entry for a file in a subdirectory of
\* it; and the returned sequences are determined by the filesystem state.
C10_WalkOrder ==
    /\ [][C10_Step]_vars
    /\ [](pc = "returned" =>
            /\ [i \in DOMAIN files |-> files[i].path]
                  = SelectSeq(WalkOrder(<<>>), IsRecorded)
            /\ [i \in DOMAIN errors |-> RelPath(errors[i].file)]
                  = SelectSeq(WalkOrder(<<>>), IsFailed))

C10_Witness ==
    /\ pc = "returned"
    /\ \E i \in DOMAIN files : Len(files[i].path) = 1
    /\ \E j \in DOMAIN errors : Len(RelPath(errors[j].file)) = 2

====
